---- MODULE Spec2Model ----
(***************************************************************************)
(* forcelib: ingestion and analysis of tensometer CSV exports.             *)
(*                                                                         *)
(* The library is a set of functions; each specification below draws the   *)
(* inputs of one group of functions in its initial states and applies the  *)
(* functions as actions:                                                   *)
(*   SpecCountHeaders   _count_headers on a probe text                     *)
(*   SpecExclude        _exclude on a set of test ordinals                 *)
(*   SpecToDataframe    _to_dataframe on a raw table, then work            *)
(*   SpecReadCsv        read_csv on a CSV file                             *)
(*                                                                         *)
(* Text is a sequence of one-character strings.  A call's outcome is       *)
(* Return(v) or Raise(e), e the name of the Python exception.              *)
(***************************************************************************)
EXTENDS Integers, Sequences, FiniteSets, TLC

VARIABLES
    csv_data,           \* _count_headers: the probe text
    n_headers,          \* _count_headers: its outcome
    tests_to_exclude,   \* _exclude: its argument (None or a set of ints)
    excluded,           \* _exclude: its outcome
    df,                 \* _to_dataframe: the raw table
    test_names,         \* _to_dataframe: the test names (None or a list)
    df_all,             \* _to_dataframe: its outcome, the table work reads
    work_out,           \* work: its outcome
    csv_file,           \* read_csv: the file, a sequence of lines
    exclude,            \* read_csv: its exclude argument
    pep479,             \* the interpreter: TRUE from Python 3.7 on, where a
                        \* StopIteration raised inside a generator becomes
                        \* RuntimeError; FALSE on 3.5 and 3.6, where it ends
                        \* the generator
    result,             \* read_csv: its outcome
    arg,                \* _int_set: its argument, a text
    int_set_out,        \* _int_set: its outcome
    args,               \* _parse_args: the command line, a list of texts
    namespace,          \* _parse_args: its outcome
    old_array,          \* rescale: the array, a sequence of integers
    min_,               \* rescale: the target minimum
    max_,               \* rescale: the target maximum
    rescaled,           \* rescale: its outcome
    interp_df,          \* interp: the table df
    new_index,          \* interp: the new index, a sequence of floats
    df_out,             \* interp: its outcome
    store,              \* the tables a script holds, by the name the code
                        \* gives them: df (the raw table _to_dataframe is
                        \* given), df_all (the table it returns, the df of
                        \* set_names, work, plot and bar), and the locals
                        \* frame and group
    passed,             \* df and df_all as they were when first passed
    calls,              \* the calls made so far, in order
    last_outcome        \* the outcome of the last call

\* the variables of ingestion and work
ingest_vars == <<csv_data, n_headers, tests_to_exclude, excluded,
                 df, test_names, df_all, work_out,
                 csv_file, exclude, pep479, result>>

\* the variables of the command line
cli_vars == <<arg, int_set_out, args, namespace>>

\* the variables of the array utilities
rescale_vars == <<old_array, min_, max_, rescaled>>

interp_vars == <<interp_df, new_index, df_out>>

array_vars == <<rescale_vars, interp_vars>>

\* the variables of the calls on tables
table_vars == <<store, passed, calls, last_outcome>>

\* the variables ingestion and work leave alone
other_vars == <<cli_vars, array_vars, table_vars>>

vars == <<ingest_vars, other_vars>>

----------------------------------------------------------------------------
\* Outcomes and optional values

Return(v) == [kind |-> "return", value |-> v]

Raise(e) == [kind |-> "raise", value |-> e]

\* no call made yet
Pending == [kind |-> "pending", value |-> "pending"]

\* the variable belongs to functions the specification does not run
Unused == [kind |-> "unused", value |-> "unused"]

None == [none |-> TRUE]

Some(v) == [none |-> FALSE, value |-> v]

----------------------------------------------------------------------------
\* Program constants

_HEADER_ROWS_MAX == 10

_COLS_PER_TEST == 4

----------------------------------------------------------------------------
\* Bounds of the model

\* longest probe text enumerated character by character
MaxProbeLen == 6

\* largest test ordinal in an exclude set
MaxTestNum == 5

\* largest raw table enumerated: rows times blocks of 4 columns
MaxBlockRows == 5

\* most tests in a CSV file
MaxTests == 2

\* most data rows in a CSV file
MaxDataRows == 7

\* longest argument of _int_set enumerated character by character
MaxArgLen == 4

\* longest path enumerated character by character
MaxPathLen == 4

\* longest array enumerated element by element
MaxArrayLen == 2

\* largest element of an enumerated array; the least is -1
MaxArrayValue == 2

\* largest target of rescale enumerated; the least is -1
MaxTarget == 2

\* largest start and stop of an enumerated np.linspace; the least is -1
MaxStop == 3

\* most points of an enumerated np.linspace
MaxNewLen == 3

\* steepest enumerated column of a table: its values rise or fall by up to
\* MaxSlope from one index point to the next, or over the whole index
MaxSlope == 2

\* most calls of set_names, work, plot and bar on one table
MaxCalls == 3

----------------------------------------------------------------------------
\* Text: str.splitlines, str.split, float

Digits == {"0", "1", "2", "3", "4", "5", "6", "7", "8", "9"}

Whitespace == {" ", "\t", "\n", "\r"}

\* str.splitlines(): the lines of s without their line breaks; a final line
\* break opens no further line.  Only "\n" breaks lines in the texts modelled.
RECURSIVE splitlines(_)
splitlines(s) ==
    IF s = <<>> THEN <<>>
    ELSE IF \E i \in 1..Len(s) : s[i] = "\n"
    THEN LET i == CHOOSE k \in 1..Len(s) :
                      s[k] = "\n" /\ \A j \in 1..(k - 1) : s[j] # "\n"
         IN  <<SubSeq(s, 1, i - 1)>> \o splitlines(SubSeq(s, i + 1, Len(s)))
    ELSE <<s>>

\* str.split(sep) for a one-character sep: always at least one field
RECURSIVE split(_, _)
split(s, sep) ==
    IF \E i \in 1..Len(s) : s[i] = sep
    THEN LET i == CHOOSE k \in 1..Len(s) :
                      s[k] = sep /\ \A j \in 1..(k - 1) : s[j] # sep
         IN  <<SubSeq(s, 1, i - 1)>> \o split(SubSeq(s, i + 1, Len(s)), sep)
    ELSE <<s>>

RECURSIVE lstrip(_)
lstrip(s) ==
    IF s # <<>> /\ Head(s) \in Whitespace THEN lstrip(Tail(s)) ELSE s

RECURSIVE rstrip(_)
rstrip(s) ==
    IF s # <<>> /\ s[Len(s)] \in Whitespace
    THEN rstrip(SubSeq(s, 1, Len(s) - 1))
    ELSE s

lower(c) ==
    CASE c = "I" -> "i" [] c = "N" -> "n" [] c = "F" -> "f" [] c = "T" -> "t"
      [] c = "Y" -> "y" [] c = "A" -> "a" [] c = "E" -> "e" [] OTHER -> c

IsDigitPart(s) == s # <<>> /\ \A i \in 1..Len(s) : s[i] \in Digits

Unsigned(s) == IF s # <<>> /\ Head(s) \in {"+", "-"} THEN Tail(s) ELSE s

\* digits with at most one point and at least one digit: 12, 1.5, 1., .5
IsMantissa(s) ==
    \/ IsDigitPart(s)
    \/ \E p \in 1..Len(s) :
          /\ s[p] = "."
          /\ \A i \in 1..Len(s) : i # p => s[i] \in Digits
          /\ Len(s) > 1

IsDecimal(s) ==
    \/ IsMantissa(s)
    \/ \E p \in 1..Len(s) :
          /\ lower(s[p]) = "e"
          /\ IsMantissa(SubSeq(s, 1, p - 1))
          /\ IsDigitPart(Unsigned(SubSeq(s, p + 1, Len(s))))

IsInfOrNan(s) ==
    [i \in 1..Len(s) |-> lower(s[i])] \in
        { <<"i", "n", "f">>, <<"n", "a", "n">>,
          <<"i", "n", "f", "i", "n", "i", "t", "y">> }

\* float(s) converts s: TRUE when it yields a number, FALSE when it raises
\* ValueError.  Surrounding whitespace is dropped, a sign may lead, then a
\* decimal number with an optional exponent, or inf, infinity or nan.  The
\* texts modelled hold no underscore and no digit outside 0..9.
float_converts(s) ==
    LET t == Unsigned(rstrip(lstrip(s)))
    IN  IsDecimal(t) \/ IsInfOrNan(t)

----------------------------------------------------------------------------
\* _count_headers

\* the loop of _count_headers from line line_num (1-based here) on: the
\* second field of the line is looked up, which raises IndexError on a line
\* without a comma; only ValueError is caught
RECURSIVE ScanHeaders(_, _)
ScanHeaders(lines, line_num) ==
    IF line_num > Len(lines) THEN Raise("ValueError")
    ELSE LET fields == split(lines[line_num], ",")
         IN  IF Len(fields) < 2 THEN Raise("IndexError")
             ELSE IF float_converts(fields[2]) THEN Return(line_num - 1)
             ELSE ScanHeaders(lines, line_num + 1)

_count_headers(text) == ScanHeaders(splitlines(text), 1)

----------------------------------------------------------------------------
\* _exclude

range(n) == 0..(n - 1)

\* ExcludeLoop taking the test ordinals as 0-based
RECURSIVE ExcludeLoopZeroBased(_, _)
ExcludeLoopZeroBased(tests, acc) ==
    IF tests = {} THEN acc
    ELSE LET test_num == CHOOSE t \in tests : TRUE
         IN  ExcludeLoopZeroBased(tests \ {test_num},
                 acc \cup { col_num + _COLS_PER_TEST * test_num :
                            col_num \in range(_COLS_PER_TEST) })

\* the loop over tests_to_exclude, adding the columns of each test in turn
RECURSIVE ExcludeLoop(_, _)
ExcludeLoop(tests, acc) ==
    IF tests = {} THEN acc
    ELSE LET test_num == CHOOSE t \in tests : TRUE
         IN  ExcludeLoop(tests \ {test_num},
                 acc \cup { col_num + _COLS_PER_TEST * (test_num - 1) :
                            col_num \in range(_COLS_PER_TEST) })

_exclude(tests) ==
    IF tests.none \/ tests.value = {} THEN {}
    ELSE ExcludeLoop(tests.value, {})

----------------------------------------------------------------------------
\* Tables
\*
\* A raw table (pd.read_csv's, header=None) is [ncols, rows]: rows is a
\* sequence of rows, a row a sequence of ncols cells, a cell NaN or Num(v).
\* Forces and displacements are held in tenths (of N, of mm), minutes in
\* hundredths; v is an integer.  A frame is [columns, rows], each row
\* [index, values], values a function of the column names.

NaN == [nan |-> TRUE]

Num(v) == [nan |-> FALSE, v |-> v]

Min(a, b) == IF a <= b THEN a ELSE b

\* df.iloc[:, first:last], columns counted from 0, last excluded
iloc_columns(rows, first, last) ==
    [r \in 1..Len(rows) |-> SubSeq(rows[r], first + 1, last)]

\* frame.dropna(): the rows without a missing value, in order
dropna(rows) ==
    SelectSeq(rows, LAMBDA row : \A c \in 1..Len(row) : ~row[c].nan)

\* the body of _to_dataframe's loop with the whole rows of df, not the
\* block's, tested for missing values
TestFrameDropsWholeRows(raw, force_col) ==
    LET whole == SelectSeq(raw.rows,
                     LAMBDA row : \A c \in 1..Len(row) : ~row[c].nan)
        frame == iloc_columns(whole, force_col, force_col + _COLS_PER_TEST)
    IN  [columns |-> <<"force", "displacement", "minutes", "event">>,
         rows |-> [i \in 1..Len(frame) |->
            [index |-> frame[i][3].v * 60,
             values |-> [force |-> frame[i][1].v,
                         displacement |-> frame[i][2].v,
                         minutes |-> frame[i][3].v,
                         event |-> frame[i][4].v]]]]

\* the body of _to_dataframe's loop with set_index('minutes'), which moves
\* the column into the index, and scales the index afterwards
TestFrameMovesMinutes(raw, force_col) ==
    LET frame == dropna(iloc_columns(raw.rows, force_col,
                                     force_col + _COLS_PER_TEST))
    IN  [columns |-> <<"force", "displacement", "event">>,
         rows |-> [i \in 1..Len(frame) |->
            [index |-> frame[i][3].v * 60,
             values |-> [force |-> frame[i][1].v,
                         displacement |-> frame[i][2].v,
                         event |-> frame[i][4].v]]]]

\* the body of _to_dataframe's loop: the block of 4 columns from force_col
\* (0-based) on, copied, its columns named, its rows with a missing value
\* dropped, and minutes * 60 set as the index; minutes stays a column
TestFrame(raw, force_col) ==
    LET frame == dropna(iloc_columns(raw.rows, force_col,
                                     force_col + _COLS_PER_TEST))
    IN  [columns |-> <<"force", "displacement", "minutes", "event">>,
         rows |-> [i \in 1..Len(frame) |->
            [index |-> frame[i][3].v * 60,
             values |-> [force |-> frame[i][1].v,
                         displacement |-> frame[i][2].v,
                         minutes |-> frame[i][3].v,
                         event |-> frame[i][4].v]]]]

\* the rows of pd.concat(frames, keys=keys): frames and keys are paired as
\* zip pairs them, each row's index becomes (key, index)
RECURSIVE ConcatRows(_, _, _)
ConcatRows(frames, keys, i) ==
    IF i > Min(Len(frames), Len(keys)) THEN <<>>
    ELSE [r \in 1..Len(frames[i].rows) |->
              [index |-> <<keys[i], frames[i].rows[r].index>>,
               values |-> frames[i].rows[r].values]]
         \o ConcatRows(frames, keys, i + 1)

\* Series.astype(bool) on numbers
astype_bool(v) == v # 0

\* _to_dataframe.  Without keys pd.concat gives a one-level index, and
\* naming its two levels raises ValueError; pd.concat of nothing raises
\* ValueError too.
_to_dataframe(raw, names) ==
    LET n_cols == raw.ncols \div _COLS_PER_TEST
        frames == [b \in 1..n_cols |->
                      TestFrame(raw, (b - 1) * _COLS_PER_TEST)]
    IN  IF n_cols = 0 THEN Raise("ValueError")
        ELSE IF names.none THEN Raise("ValueError")
        ELSE IF Len(names.value) = 0 THEN Raise("ValueError")
        ELSE LET rows == ConcatRows(frames, names.value, 1)
             IN  Return([columns |-> frames[1].columns,
                         index_names |-> <<"test", "time">>,
                         rows |-> [i \in 1..Len(rows) |->
                            [index |-> rows[i].index,
                             values |-> [rows[i].values EXCEPT
                                !.event = astype_bool(@)]]]])

----------------------------------------------------------------------------
\* work
\*
\* A quotient of the floating-point code is held exactly, as [num, den].

RECURSIVE sum(_)
sum(a) == IF a = <<>> THEN 0 ELSE Head(a) + sum(Tail(a))

\* np.diff(x)
diff(x) == [i \in 1..(Len(x) - 1) |-> x[i + 1] - x[i]]

\* np.trapz with the widths taken as lengths, |x[i+1] - x[i]|
trapz_unsigned(y, x) ==
    LET d == diff(x)
    IN  [num |-> sum([i \in 1..Len(d) |->
                        (IF d[i] < 0 THEN 0 - d[i] ELSE d[i])
                            * (y[i + 1] + y[i])]),
         den |-> 2]

\* np.trapz(y, x): (diff(x) * (y[1:] + y[:-1]) / 2.0).sum()
trapz(y, x) ==
    LET d == diff(x)
    IN  [num |-> sum([i \in 1..Len(d) |-> d[i] * (y[i + 1] + y[i])]),
         den |-> 2]

column(rows, name) == [i \in 1..Len(rows) |-> rows[i].values[name]]

\* _work(df): np.trapz(df['force'], df['displacement']) / 1000
_work(rows) ==
    LET area == trapz(column(rows, "force"), column(rows, "displacement"))
    IN  [num |-> area.num, den |-> area.den * 1000]

\* df.groupby(level=0).apply(_work): a value for each test name, computed
\* from the rows under that name in the table's order
work(table) ==
    [name \in { table.rows[i].index[1] : i \in 1..Len(table.rows) } |->
        _work(SelectSeq(table.rows, LAMBDA row : row.index[1] = name))]

----------------------------------------------------------------------------
\* read_csv
\*
\* A file is the sequence of its lines, each without the line break that
\* ends it in the file.

RECURSIVE JoinLines(_, _)
JoinLines(lines, n) ==
    IF n = 0 THEN <<>>
    ELSE JoinLines(lines, n - 1) \o lines[n] \o <<"\n">>

\* ''.join(next(f) for line_num in range(_HEADER_ROWS_MAX)): the first 10
\* lines.  In a shorter file next(f) raises StopIteration inside the
\* generator: RuntimeError under PEP 479, the end of the generator before.
ReadHead(file, pep) ==
    IF Len(file) >= _HEADER_ROWS_MAX
    THEN Return(JoinLines(file, _HEADER_ROWS_MAX))
    ELSE IF pep THEN Raise("RuntimeError")
    ELSE Return(JoinLines(file, Len(file)))

\* a[::step]
every_nth(a, step) ==
    [i \in 1..((Len(a) + step - 1) \div step) |-> a[(i - 1) * step + 1]]

\* _get_test_names
_get_test_names(text) ==
    LET lines == splitlines(text)
    IN  IF Len(lines) < 3 THEN Raise("IndexError")
        ELSE Return(every_nth(split(lines[3], ","), _COLS_PER_TEST))

RECURSIVE int_of(_)
int_of(s) ==
    LET c == s[Len(s)]
        d == CASE c = "0" -> 0 [] c = "1" -> 1 [] c = "2" -> 2 [] c = "3" -> 3
               [] c = "4" -> 4 [] c = "5" -> 5 [] c = "6" -> 6 [] c = "7" -> 7
               [] c = "8" -> 8 [] OTHER -> 9
    IN  IF Len(s) = 1 THEN d ELSE 10 * int_of(SubSeq(s, 1, Len(s) - 1)) + d

\* a field as pd.read_csv reads it: an empty field is missing; the numbers
\* of the files modelled are unsigned integers; other text stays text
parse_cell(field) ==
    IF field = <<>> THEN NaN
    ELSE IF IsDigitPart(field) THEN Num(int_of(field))
    ELSE Num(field)

\* pd.read_csv(csv_filename, skiprows=n, header=None): the lines after the
\* first n, blank lines skipped, as rows of cells; the first row sets the
\* number of columns, a shorter row is filled with NaN, a longer one is a
\* ParserError, no row at all an EmptyDataError
pd_read_csv(file, n) ==
    LET kept == SelectSeq(SubSeq(file, n + 1, Len(file)),
                          LAMBDA line : line # <<>>)
        fields == [r \in 1..Len(kept) |-> split(kept[r], ",")]
    IN  IF Len(kept) = 0 THEN Raise("EmptyDataError")
        ELSE IF \E r \in 1..Len(fields) : Len(fields[r]) > Len(fields[1])
        THEN Raise("ParserError")
        ELSE Return([ncols |-> Len(fields[1]),
                     rows |-> [r \in 1..Len(fields) |->
                        [c \in 1..Len(fields[1]) |->
                            IF c <= Len(fields[r])
                            THEN parse_cell(fields[r][c]) ELSE NaN]]])

\* all_data.columns[list(excluded)]: the labels at the positions excluded.
\* A position from -ncols to -1 counts from the end; a position outside
\* -ncols..ncols-1 raises IndexError.
columns_at(ncols, positions) ==
    IF \E q \in positions : q >= ncols \/ q < 0 - ncols
    THEN Raise("IndexError")
    ELSE Return({ IF q < 0 THEN q + ncols ELSE q : q \in positions })

RECURSIVE without_columns(_, _, _)
without_columns(row, labels, c) ==
    IF c > Len(row) THEN <<>>
    ELSE (IF (c - 1) \in labels THEN <<>> ELSE <<row[c]>>)
         \o without_columns(row, labels, c + 1)

\* all_data.drop(labels, axis=1, errors='ignore'); the labels of a table
\* read with header=None are 0..ncols-1
drop_columns(raw, labels) ==
    [ncols |-> raw.ncols - Cardinality(labels \cap (0..(raw.ncols - 1))),
     rows |-> [r \in 1..Len(raw.rows) |->
                  without_columns(raw.rows[r], labels, 1)]]

read_csv(file, excl, pep) ==
    LET head == ReadHead(file, pep)
    IN  IF head.kind = "raise" THEN head
        ELSE
        LET n == _count_headers(head.value)
            names == _get_test_names(head.value)
        IN  IF n.kind = "raise" THEN n
            ELSE IF names.kind = "raise" THEN names
            ELSE
            LET all_data == pd_read_csv(file, n.value)
            IN  IF all_data.kind = "raise" THEN all_data
                ELSE
                LET labels == columns_at(all_data.value.ncols, _exclude(excl))
                IN  IF labels.kind = "raise" THEN labels
                    ELSE _to_dataframe(
                             drop_columns(all_data.value, labels.value),
                             Some(names.value))

----------------------------------------------------------------------------
\* Floating point: numpy's float64 (IEEE 754 binary64, round to nearest,
\* ties to even)
\*
\* A natural number too large for one integer is the sequence of its digits
\* in base LimbBase, lowest first, its highest digit not 0; zero is << >>.
\* A float is [sign, sig, exp]: sign * sig * 2^exp, sig a natural of exactly
\* Precision bits, or FZero.  The exponent is not bounded: the numbers
\* modelled neither overflow nor underflow.  A NaN is the cell NaN.
\*
\* The arithmetic on naturals (Limb to IsOdd) and the steps of rounding and
\* of long division are no line of the program: they are the exact integer
\* arithmetic under the significands, which outgrow the integers of the
\* model checker.  The operations of the program are the ones on floats:
\* from_int, fneg, fadd, fsub, fmul, fdiv and fcmp, each the exact result
\* rounded by RoundSig.

\* bits of a float64's significand
Precision == 53

LimbBits == 15

LimbBase == 2 ^ LimbBits

Limb(a, i) == IF i <= Len(a) THEN a[i] ELSE 0

RECURSIVE Trim(_)
Trim(a) ==
    IF a # <<>> /\ a[Len(a)] = 0 THEN Trim(SubSeq(a, 1, Len(a) - 1)) ELSE a

RECURSIVE BigFromInt(_)
BigFromInt(n) ==
    IF n = 0 THEN <<>>
    ELSE <<n % LimbBase>> \o BigFromInt(n \div LimbBase)

RECURSIVE AddFrom(_, _, _, _)
AddFrom(a, b, i, carry) ==
    IF i > Len(a) /\ i > Len(b)
    THEN IF carry = 0 THEN <<>> ELSE <<carry>>
    ELSE LET t == Limb(a, i) + Limb(b, i) + carry
         IN  <<t % LimbBase>> \o AddFrom(a, b, i + 1, t \div LimbBase)

BigAdd(a, b) == AddFrom(a, b, 1, 0)

\* a - b for a >= b
RECURSIVE SubFrom(_, _, _, _)
SubFrom(a, b, i, borrow) ==
    IF i > Len(a) THEN <<>>
    ELSE LET t == a[i] - Limb(b, i) - borrow
         IN  <<t % LimbBase>>
             \o SubFrom(a, b, i + 1, IF t < 0 THEN 1 ELSE 0)

BigSub(a, b) == Trim(SubFrom(a, b, 1, 0))

\* -1, 0 or 1 as a is below, equal to or above b
RECURSIVE CmpFrom(_, _, _)
CmpFrom(a, b, i) ==
    IF i = 0 THEN 0
    ELSE IF a[i] < b[i] THEN 0 - 1
    ELSE IF a[i] > b[i] THEN 1
    ELSE CmpFrom(a, b, i - 1)

BigCmp(a, b) ==
    IF Len(a) < Len(b) THEN 0 - 1
    ELSE IF Len(a) > Len(b) THEN 1
    ELSE CmpFrom(a, b, Len(a))

\* a * k for 0 <= k < LimbBase
RECURSIVE MulFrom(_, _, _, _)
MulFrom(a, k, i, carry) ==
    IF i > Len(a) THEN (IF carry = 0 THEN <<>> ELSE <<carry>>)
    ELSE LET t == a[i] * k + carry
         IN  <<t % LimbBase>> \o MulFrom(a, k, i + 1, t \div LimbBase)

MulSmall(a, k) == Trim(MulFrom(a, k, 1, 0))

\* a * LimbBase^j
ShiftLimbs(a, j) ==
    IF a = <<>> THEN <<>> ELSE [i \in 1..j |-> 0] \o a

RECURSIVE MulUpTo(_, _, _)
MulUpTo(a, b, i) ==
    IF i = 0 THEN <<>>
    ELSE BigAdd(MulUpTo(a, b, i - 1), ShiftLimbs(MulSmall(a, b[i]), i - 1))

BigMul(a, b) == MulUpTo(a, b, Len(b))

\* a * 2^k
ShiftLeft(a, k) ==
    ShiftLimbs(MulSmall(a, 2 ^ (k % LimbBits)), k \div LimbBits)

RECURSIVE SmallBitLen(_)
SmallBitLen(n) == IF n = 0 THEN 0 ELSE 1 + SmallBitLen(n \div 2)

BitLen(a) ==
    IF a = <<>> THEN 0
    ELSE LimbBits * (Len(a) - 1) + SmallBitLen(a[Len(a)])

\* [q, r]: a \div d and a % d for 0 < d <= LimbBase, from limb i down;
\* carry is the remainder of the limbs above, q their quotient
RECURSIVE DivFrom(_, _, _, _, _)
DivFrom(a, d, i, carry, q) ==
    IF i = 0 THEN [q |-> Trim(q), r |-> carry]
    ELSE DivFrom(a, d, i - 1, (carry * LimbBase + a[i]) % d,
                 <<(carry * LimbBase + a[i]) \div d>> \o q)

DivSmall(a, d) == DivFrom(a, d, Len(a), 0, <<>>)

WithSticky(res, dropped) ==
    [q |-> res.q, sticky |-> res.r # 0 \/ dropped]

\* [q, sticky]: a \div 2^k, and whether a bit was shifted out
ShiftRight(a, k) ==
    WithSticky(DivSmall(SubSeq(a, k \div LimbBits + 1, Len(a)),
                        2 ^ (k % LimbBits)),
               \E i \in 1..Min(k \div LimbBits, Len(a)) : a[i] # 0)

IsOdd(a) == a # <<>> /\ a[1] % 2 = 1

FZero == [sign |-> 1, sig |-> <<>>, exp |-> 0]

\* the float nearest to sign * (n + f) * 2^e, where f = 0 when sticky is
\* FALSE and 0 < f < 1 when it is TRUE (n then has more bits than Precision)
\* r has Precision bits, or is 2^Precision after rounding up
Renormal(sign, r, e) ==
    IF BitLen(r) > Precision
    THEN [sign |-> sign, sig |-> DivSmall(r, 2).q, exp |-> e + 1]
    ELSE [sign |-> sign, sig |-> r, exp |-> e]

\* upper holds one bit more than Precision, q is upper.q without that bit:
\* round up above the half, and at the half to the even neighbour
RoundHalf(sign, upper, q, e, sticky) ==
    IF IsOdd(upper.q) /\ (sticky \/ upper.sticky \/ IsOdd(q))
    THEN Renormal(sign, BigAdd(q, <<1>>), e)
    ELSE Renormal(sign, q, e)

RoundUpper(sign, upper, e, sticky) ==
    RoundHalf(sign, upper, DivSmall(upper.q, 2).q, e, sticky)

RoundLen(sign, n, e, sticky, len) ==
    IF n = <<>> THEN FZero
    ELSE IF len <= Precision
    THEN [sign |-> sign, sig |-> ShiftLeft(n, Precision - len),
          exp |-> e - (Precision - len)]
    ELSE RoundUpper(sign, ShiftRight(n, len - Precision - 1),
                    e + len - Precision, sticky)

RoundSig(sign, n, e, sticky) == RoundLen(sign, n, e, sticky, BitLen(n))

\* float(n) for an integer n
from_int(n) ==
    IF n < 0 THEN RoundSig(0 - 1, BigFromInt(0 - n), 0, FALSE)
    ELSE RoundSig(1, BigFromInt(n), 0, FALSE)

fneg(x) == IF x = FZero THEN x ELSE [x EXCEPT !.sign = 0 - x.sign]

\* x + y
\* a * 2^e and b * 2^e with their signs, added
AddAligned(sa, a, sb, b, e, c) ==
    IF sa = sb THEN RoundSig(sa, BigAdd(a, b), e, FALSE)
    ELSE IF c = 0 THEN FZero
    ELSE IF c > 0 THEN RoundSig(sa, BigSub(a, b), e, FALSE)
    ELSE RoundSig(sb, BigSub(b, a), e, FALSE)

AddAt(sa, a, sb, b, e) == AddAligned(sa, a, sb, b, e, BigCmp(a, b))

fadd(x, y) ==
    IF x = FZero THEN y
    ELSE IF y = FZero THEN x
    ELSE AddAt(x.sign, ShiftLeft(x.sig, x.exp - Min(x.exp, y.exp)),
               y.sign, ShiftLeft(y.sig, y.exp - Min(x.exp, y.exp)),
               Min(x.exp, y.exp))

\* x - y
fsub(x, y) == fadd(x, fneg(y))

\* x * y
fmul(x, y) ==
    RoundSig(x.sign * y.sign, BigMul(x.sig, y.sig), x.exp + y.exp, FALSE)

\* the largest digit q with d * q <= r, from the estimate q on
RECURSIVE FixDigit(_, _, _)
FixDigit(r, d, q) ==
    IF BigCmp(MulSmall(d, q), r) > 0 THEN FixDigit(r, d, q - 1) ELSE q

\* r \div d for r < d * LimbBase, d of DivLimbs limbs, its highest
\* at least LimbBase / 2: the two highest limbs of r divided by the highest
\* of d are the digit or up to 2 more
DivDigit(r, d) ==
    FixDigit(r, d,
        Min(LimbBase - 1,
            (Limb(r, Len(d) + 1) * LimbBase + Limb(r, Len(d))) \div d[Len(d)]))

\* long division of r * LimbBase^n by d, one limb a step; q is the quotient
\* so far
RECURSIVE DivLoop(_, _, _, _)
DivStep(r, d, q, n, digit) ==
    DivLoop(BigSub(r, MulSmall(d, digit)), d,
            BigAdd(ShiftLimbs(q, 1), BigFromInt(digit)), n)

DivLoop(r, d, q, n) ==
    IF n = 0 THEN [q |-> q, sticky |-> r # <<>>]
    ELSE DivStep(ShiftLimbs(r, 1), d, q, n - 1, DivDigit(ShiftLimbs(r, 1), d))

\* limbs that hold a significand
DivLimbs == (Precision + LimbBits - 1) \div LimbBits

\* the quotient of two significands times LimbBase^DivLimbs, both shifted
\* to fill DivLimbs limbs: its first digit is 0 or 1
BigDiv(a, d) ==
    IF BigCmp(a, d) >= 0
    THEN DivLoop(BigSub(a, d), d, <<1>>, DivLimbs)
    ELSE DivLoop(a, d, <<>>, DivLimbs)

RoundQuotient(sign, res, e) == RoundSig(sign, res.q, e, res.sticky)

\* x / y for y # 0: the quotient of the significands to DivLimbs limbs,
\* more bits than Precision + 2, what remains being sticky
fdiv(x, y) ==
    IF x = FZero THEN FZero
    ELSE RoundQuotient(x.sign * y.sign,
             BigDiv(ShiftLeft(x.sig, DivLimbs * LimbBits - Precision),
                    ShiftLeft(y.sig, DivLimbs * LimbBits - Precision)),
             x.exp - y.exp - DivLimbs * LimbBits)

\* -1, 0 or 1 as x is below, equal to or above y
fcmp(x, y) ==
    IF x = y THEN 0
    ELSE IF x = FZero THEN 0 - y.sign
    ELSE IF y = FZero THEN x.sign
    ELSE IF x.sign # y.sign THEN x.sign
    ELSE LET e == Min(x.exp, y.exp)
         IN  x.sign * BigCmp(ShiftLeft(x.sig, x.exp - e),
                             ShiftLeft(y.sig, y.exp - e))

----------------------------------------------------------------------------
\* arraylib.rescale
\*
\* An array is a sequence of floats; min_ and max_ are Python integers.

fmax(x, y) == IF fcmp(x, y) >= 0 THEN x ELSE y

fmin(x, y) == IF fcmp(x, y) <= 0 THEN x ELSE y

\* old_array.max()
RECURSIVE amax(_)
amax(a) == IF Len(a) = 1 THEN a[1] ELSE fmax(a[1], amax(Tail(a)))

\* old_array.min()
RECURSIVE amin(_)
amin(a) == IF Len(a) = 1 THEN a[1] ELSE fmin(a[1], amin(Tail(a)))

\* rescale: min_ + scale_factor * (old_array - old_array.min()).  For a
\* constant array the divisor is 0.0: numpy warns, the scale factor is
\* infinite or NaN, and every element of the result is NaN.
Rescaled(a, lo, scale_factor, least) ==
    [i \in 1..Len(a) |-> fadd(lo, fmul(scale_factor, fsub(a[i], least)))]

\* ScaleBy with the targets taken the other way round in the scale factor
ScaleBySwapped(a, lo, hi, span) ==
    IF span = FZero THEN [i \in 1..Len(a) |-> NaN]
    ELSE Rescaled(a, from_int(lo), fdiv(from_int(lo - hi), span), amin(a))

\* the scale factor, and the elements scaled with it
ScaleBy(a, lo, hi, span) ==
    IF span = FZero THEN [i \in 1..Len(a) |-> NaN]
    ELSE Rescaled(a, from_int(lo), fdiv(from_int(hi - lo), span), amin(a))

rescale(a, lo, hi) == ScaleBy(a, lo, hi, fsub(amax(a), amin(a)))

----------------------------------------------------------------------------
\* arraylib.interp
\*
\* A table is [index_name, index, columns]: the index a sequence of numbers,
\* columns a sequence of [name, values], values as long as the index.

\* np.linspace(start, stop, num) for num >= 1: i * step + start, the last
\* point being stop itself
LinspaceBy(start, stop, num, step) ==
    [i \in 1..num |->
        IF i = num /\ num > 1 THEN from_int(stop)
        ELSE fadd(fmul(from_int(i - 1), step), from_int(start))]

linspace(start, stop, num) ==
    IF num = 1 THEN << from_int(start) >>
    ELSE LinspaceBy(start, stop, num,
                    fdiv(from_int(stop - start), from_int(num - 1)))

\* np.interp's search, for xp increasing and xp[1] <= x <= xp[Len(xp)]:
\* the j with xp[j] <= x < xp[j + 1], or the last j
Bracket(x, xp) ==
    CHOOSE j \in 1..Len(xp) :
        /\ fcmp(xp[j], x) <= 0
        /\ j = Len(xp) \/ fcmp(x, xp[j + 1]) < 0

\* interp_between without the slope: the value at the lower index point
interp_step(x, xp, fp, j) == fp[j]

\* np.interp inside the range of xp: slope * (x - xp[j]) + fp[j]
interp_between(x, xp, fp, j) ==
    IF j = Len(xp) THEN fp[j]
    ELSE fadd(fmul(fdiv(fsub(fp[j + 1], fp[j]), fsub(xp[j + 1], xp[j])),
                   fsub(x, xp[j])),
              fp[j])

\* np.interp at one point: beyond the range of xp the value at its end
interp_point(x, xp, fp) ==
    IF fcmp(x, xp[Len(xp)]) > 0 THEN fp[Len(xp)]
    ELSE IF fcmp(x, xp[1]) < 0 THEN fp[1]
    ELSE interp_between(x, xp, fp, Bracket(x, xp))

\* np.interp(x, xp, fp)
np_interp(x, xp, fp) == [i \in 1..Len(x) |-> interp_point(x[i], xp, fp)]

\* interp(df, new_index): a table on new_index, named as the index of df,
\* with every column of df interpolated
interp(table, new) ==
    [index_name |-> table.index_name,
     index |-> new,
     columns |-> [c \in 1..Len(table.columns) |->
         [name |-> table.columns[c].name,
          values |-> np_interp(new, table.index, table.columns[c].values)]]]

----------------------------------------------------------------------------
\* set_names, work, plot and bar: the tables they are given
\*
\* The table _to_dataframe returns, as pandas holds it: [names, levels,
\* columns, rows].  levels is the labels of the two index levels, the test
\* names as given and the times in rising order; a row is [codes, values],
\* codes the positions in the levels (counted from 1) of its test name and
\* its time.
\*
\* store holds the tables by the names of the code.  A statement that acts
\* in place (inplace=True, an assignment to an attribute) changes the table
\* under the name it is applied to; any other makes a new table.

\* the elements of a sequence
Elements(seq) == { seq[i] : i \in 1..Len(seq) }

RECURSIVE SortedSeq(_)
SortedSeq(S) ==
    IF S = {} THEN <<>>
    ELSE LET least == CHOOSE v \in S : \A w \in S : v <= w
         IN  <<least>> \o SortedSeq(S \ {least})

PositionIn(seq, v) == CHOOSE i \in 1..Len(seq) : seq[i] = v

\* pd.concat(frames, keys=test_names) with its index: the keys paired with
\* a frame are the first level, in the order given, also those of a frame
\* without rows; the times of all frames are the second
MultiIndexOf(table, keys, times) ==
    [names |-> table.index_names,
     levels |-> <<keys, times>>,
     columns |-> table.columns,
     rows |-> [i \in 1..Len(table.rows) |->
        [codes |-> <<PositionIn(keys, table.rows[i].index[1]),
                     PositionIn(times, table.rows[i].index[2])>>,
         values |-> table.rows[i].values]]]

MultiIndexed(table, keys, n_frames) ==
    MultiIndexOf(table, SubSeq(keys, 1, Min(Len(keys), n_frames)),
        SortedSeq({ table.rows[i].index[2] : i \in 1..Len(table.rows) }))

\* the table with the labels of its rows in place of their codes
Labelled(t) ==
    [columns |-> t.columns,
     index_names |-> t.names,
     rows |-> [i \in 1..Len(t.rows) |->
        [index |-> <<t.levels[1][t.rows[i].codes[1]],
                     t.levels[2][t.rows[i].codes[2]]>>,
         values |-> t.rows[i].values]]]

\* _to_dataframe(df, test_names) on the store: each frame is a copy of 4
\* columns of df, and columns, dropna and set_index act on frame, which is
\* gone when _to_dataframe returns; df_all is the new table of pd.concat
to_dataframe(s, names) ==
    [s EXCEPT
        !.df_all = Some(MultiIndexed(_to_dataframe(s.df, Some(names)).value,
                                     names, s.df.ncols \div _COLS_PER_TEST))]

\* the largest code of a level among the rows, 0 without rows
MaxCode(t, level) ==
    IF t.rows = <<>> THEN 0
    ELSE CHOOSE c \in { t.rows[i].codes[level] : i \in 1..Len(t.rows) } :
             \A i \in 1..Len(t.rows) : t.rows[i].codes[level] <= c

\* index.set_levels(names, level=level, inplace=True), levels counted from
\* 0: the labels of the level are replaced, the codes stay.  Fewer labels
\* than the codes need is a ValueError.
set_levels(t, names, level) ==
    IF MaxCode(t, level + 1) > Len(names) THEN Raise("ValueError")
    ELSE Return([t EXCEPT !.levels[level + 1] = names])

\* set_names with level=1
set_names_on_time(t, names) == set_levels(t, names, 1)

\* set_names(df, names): df.index.set_levels(names, level=0, inplace=True)
set_names(t, names) == set_levels(t, names, 0)

\* df.groupby(level=0): the codes of the first level that have rows
GroupKeys(t) ==
    SortedSeq({ t.rows[i].codes[1] :
                  i \in { j \in 1..Len(t.rows) : t.rows[j].codes # <<>> } })

\* a group of df.groupby(level=0): a new table of the rows of one test
Group(t, code) ==
    [t EXCEPT !.rows = SelectSeq(t.rows,
        LAMBDA row : row.codes # <<>> /\ row.codes[1] = code)]

\* reset_index(inplace=True): the levels of the index become the first
\* columns of the table it is applied to, and the rows are numbered
reset_index(t) ==
    [names |-> <<>>,
     levels |-> <<>>,
     columns |-> t.names \o t.columns,
     rows |-> [i \in 1..Len(t.rows) |->
        [codes |-> <<>>,
         values |-> [c \in Elements(t.names) \cup DOMAIN t.rows[i].values |->
            IF c \in DOMAIN t.rows[i].values THEN t.rows[i].values[c]
            ELSE t.levels[PositionIn(t.names, c)]
                         [t.rows[i].codes[PositionIn(t.names, c)]]]]]]

\* the body of plot's loop with reset_index applied to df
plot_group_on_df(s, code) ==
    [s EXCEPT !.df_all = Some(reset_index(s.df_all.value))]

\* the body of plot's loop: group is the table of one test, and
\* reset_index acts on group
plot_group(s, code) ==
    [s EXCEPT !.group = Some(reset_index(Group(s.df_all.value, code)))]

RECURSIVE PlotLoop(_, _)
PlotLoop(s, codes) ==
    IF codes = <<>> THEN s
    ELSE PlotLoop(plot_group(s, Head(codes)), Tail(codes))

\* plot(df) on the store; group is gone when plot returns
plot(s) == [PlotLoop(s, GroupKeys(s.df_all.value)) EXCEPT !.group = None]

\* bar(df)'s aggregate: group.agg(np.mean) of the column force, the sum
\* and the number of rows of each test
bar(t) ==
    [code \in Elements(GroupKeys(t)) |->
        [num |-> sum(column(Group(t, code).rows, "force")),
         den |-> Len(Group(t, code).rows)]]

----------------------------------------------------------------------------
\* _int_set and _parse_args
\*
\* The texts modelled hold no underscore, no "=", and none of the letters of
\* "-x" and "--exclude" outside these two option strings.

strip(s) == rstrip(lstrip(s))

\* int(s): surrounding whitespace is dropped, one sign may lead, then
\* decimal digits; anything else raises ValueError
py_int(s) ==
    LET t == strip(s)
        u == Unsigned(t)
    IN  IF ~IsDigitPart(u) THEN Raise("ValueError")
        ELSE IF Head(t) = "-" THEN Return(0 - int_of(u))
        ELSE Return(int_of(u))

\* _int_set leaving out the tokens that are no integers
_int_set_skipping(text) ==
    LET tokens == split(text, ",")
        good == { i \in 1..Len(tokens) : py_int(tokens[i]).kind = "return" }
    IN  Return({ py_int(tokens[i]).value : i \in good })

\* _int_set: set(int(n) for n in arg.split(','))
_int_set(text) ==
    LET tokens == split(text, ",")
    IN  IF \E i \in 1..Len(tokens) : py_int(tokens[i]).kind = "raise"
        THEN Raise("ValueError")
        ELSE Return({ py_int(tokens[i]).value : i \in 1..Len(tokens) })

RECURSIVE join(_, _)
join(parts, sep) ==
    IF parts = <<>> THEN <<>>
    ELSE IF Len(parts) = 1 THEN parts[1]
    ELSE parts[1] \o sep \o join(Tail(parts), sep)

\* the root of a POSIX path: "/" for any number of leading slashes but two,
\* "//" for exactly two
path_root(p) ==
    IF p = <<>> \/ Head(p) # "/" THEN <<>>
    ELSE IF Len(p) >= 2 /\ p[2] = "/" /\ (Len(p) = 2 \/ p[3] # "/")
    THEN <<"/", "/">>
    ELSE <<"/">>

\* pathlib.Path(p) keeping the "." components
PathKeepingDots(p) ==
    [root |-> path_root(p),
     parts |-> SelectSeq(split(p, "/"), LAMBDA c : c # <<>>)]

\* pathlib.Path(p) on POSIX: the root and the components between slashes,
\* empty components and "." components dropped
Path(p) ==
    [root |-> path_root(p),
     parts |-> SelectSeq(split(p, "/"),
                         LAMBDA c : c # <<>> /\ c # <<".">>)]

\* str(path)
path_str(path) ==
    IF path.root = <<>> /\ path.parts = <<>> THEN <<".">>
    ELSE path.root \o join(path.parts, <<"/">>)

OptX == <<"-", "x">>

OptExclude == <<"-", "-", "e", "x", "c", "l", "u", "d", "e">>

\* argparse: '^-\d+$|^-\d*\.\d+$'
IsNegativeNumber(s) ==
    /\ Len(s) >= 2
    /\ Head(s) = "-"
    /\ \/ IsDigitPart(Tail(s))
       \/ \E p \in 2..Len(s) :
             /\ s[p] = "."
             /\ p < Len(s)
             /\ \A i \in 2..Len(s) : i # p => s[i] \in Digits

\* argparse takes an argument for an option string when it starts with "-",
\* is longer than "-", is no negative number and holds no space
IsOptionLike(s) ==
    /\ Len(s) >= 2
    /\ Head(s) = "-"
    /\ ~IsNegativeNumber(s)
    /\ \A i \in 1..Len(s) : s[i] # " "

\* parser.parse_args(args) from argument i on: file is the positional seen
\* so far, excl the value of -x.  Every error of argparse, a failed type
\* conversion included, ends in SystemExit.
RECURSIVE ParseLoop(_, _, _, _)
ParseLoop(argv, i, file, excl) ==
    IF i > Len(argv)
    THEN IF file.none THEN Raise("SystemExit")
         ELSE Return([file |-> file.value, exclude |-> excl])
    ELSE IF argv[i] \in {OptX, OptExclude}
    THEN IF i + 1 > Len(argv) \/ IsOptionLike(argv[i + 1])
         THEN Raise("SystemExit")
         ELSE LET value == _int_set(argv[i + 1])
              IN  IF value.kind = "raise" THEN Raise("SystemExit")
                  ELSE ParseLoop(argv, i + 2, file, Some(value.value))
    ELSE IF IsOptionLike(argv[i]) THEN Raise("SystemExit")
    ELSE IF ~file.none THEN Raise("SystemExit")
    ELSE ParseLoop(argv, i + 1, Some(Path(argv[i])), excl)

_parse_args(argv) == ParseLoop(argv, 1, None, None)

----------------------------------------------------------------------------
\* Inputs

ProbeChars == {"A", "1", ".", ",", "\n"}

BoundedTexts == UNION { [1..n -> ProbeChars] : n \in 0..MaxProbeLen }

LineForceDistance ==
    <<"F", "o", "r", "c", "e", ",", "D", "i", "s", "t", "a", "n", "c", "e">>

LineUnits == <<"N", ",", "m", "m">>

LineSample == <<"S", "a", "m", "p", "l", "e", " ", "1", ",">>

NL == <<"\n">>

\* the probe texts of TestCountHeaders
FixtureThree ==
    LineForceDistance \o NL \o LineUnits \o NL \o LineSample \o NL
        \o <<"0", ".", "1", "2", "3", ",", "1", "2", ".", "3">> \o NL

FixtureFour ==
    LineForceDistance \o NL \o LineUnits \o NL \o LineSample \o NL
        \o <<",">> \o NL \o <<"1", ".", "2", "3", ",", "1", "2", ".", "3">>

FixtureNoNumber ==
    LineForceDistance \o NL \o LineUnits \o NL \o LineSample \o NL
        \o <<",">> \o NL \o <<"X", ",", "Y">>

\* the probe texts of the earlier revision's tests: lines of a single field
FixtureSingleFields == <<"A", "\n", "B", "\n", "C", "\n">>

FixtureBlankLine == <<"A", "\n", "B", "\n", "\n", "D", "\n", "0", "\n">>

ProbeTexts ==
    BoundedTexts \cup { FixtureThree, FixtureFour, FixtureNoNumber,
                        FixtureSingleFields, FixtureBlankLine }

TestNums == (0 - 1)..MaxTestNum

ExcludeArgs == {None} \cup { Some(E) : E \in SUBSET TestNums }

\* str(n) for n >= 0
RECURSIVE str_int(_)
str_int(n) ==
    LET digit == CASE n % 10 = 0 -> "0" [] n % 10 = 1 -> "1"
                   [] n % 10 = 2 -> "2" [] n % 10 = 3 -> "3"
                   [] n % 10 = 4 -> "4" [] n % 10 = 5 -> "5"
                   [] n % 10 = 6 -> "6" [] n % 10 = 7 -> "7"
                   [] n % 10 = 8 -> "8" [] OTHER -> "9"
    IN  IF n < 10 THEN <<digit>> ELSE str_int(n \div 10) \o <<digit>>

\* 'Test {}'.format(i)
TestLabel(i) == <<"T", "e", "s", "t", " ">> \o str_int(i)

TestLabels(n) == [i \in 1..n |-> TestLabel(i)]

\* names a caller may pass: 'Sample i'
SampleLabels(n) ==
    [i \in 1..n |-> <<"S", "a", "m", "p", "l", "e", " ">> \o str_int(i)]

\* the 4 fields of one test in raw row r: a full row at displacement 0, a
\* full row at displacement 0.3 with a non-zero event other than 1, a blank
\* row (the test is over), a row with one field missing
RowKinds == {"zero", "step", "blank", "partial"}

BlockRow(kind, r) ==
    CASE kind = "zero" -> <<Num(12), Num(0), Num(r), Num(0)>>
      [] kind = "step" -> <<Num(13), Num(3), Num(r), Num(2)>>
      [] kind = "blank" -> <<NaN, NaN, NaN, NaN>>
      [] OTHER -> <<Num(15), NaN, Num(r), Num(1)>>

RECURSIVE JoinBlocks(_, _, _, _)
JoinBlocks(kinds, r, b, n_blocks) ==
    IF b > n_blocks THEN <<>>
    ELSE BlockRow(kinds[<<r, b>>], r) \o JoinBlocks(kinds, r, b + 1, n_blocks)

EnumeratedTables ==
    UNION { { [ncols |-> _COLS_PER_TEST * shape[2],
               rows |-> [r \in 1..shape[1] |->
                            JoinBlocks(kinds, r, 1, shape[2])]] :
              kinds \in [(1..shape[1]) \X (1..shape[2]) -> RowKinds] } :
            shape \in { sh \in (1..MaxBlockRows) \X (1..MaxBlockRows) :
                            sh[1] * sh[2] <= MaxBlockRows } }

\* the table of TestArrayFunctions.setUp
FixtureTable ==
    [ncols |-> 8,
     rows |-> <<
        <<Num(12), Num(0), Num(10), Num(0), Num(8), Num(0), Num(10), Num(1)>>,
        <<Num(13), Num(3), Num(20), Num(1), Num(5), Num(0), Num(25), Num(1)>>,
        <<Num(14), Num(2), Num(30), Num(0), Num(7), Num(3), Num(30), Num(1)>>,
        <<Num(15), Num(5), Num(40), Num(1), Num(8), Num(2), Num(40), Num(0)>>,
        <<Num(16), Num(5), Num(45), Num(0), NaN, NaN, NaN, NaN>> >>]

RawTables == EnumeratedTables \cup {FixtureTable}

NoTable == [ncols |-> 0, rows |-> <<>>]

\* CSV files: 3 header lines (channels, units, test names), then with
\* extra_header a line of empty fields, then the data rows; every line has
\* 4 fields a test.  With short_last the last test of a file of several
\* tests ends one row early and its fields in the last row are blank.
RECURSIVE Repeat(_, _)
Repeat(part, n) == IF n = 0 THEN <<>> ELSE Repeat(part, n - 1) \o part

RECURSIVE NameLine(_)
NameLine(n) ==
    IF n = 0 THEN <<>>
    ELSE NameLine(n - 1) \o (IF n = 1 THEN <<>> ELSE <<",">>)
         \o SampleLabels(n)[n] \o <<",", ",", ",">>

\* the fields of test t in data row r: force 10t+r, displacement r,
\* minutes r, event r mod 2
DataFields(t, r, blank) ==
    (IF t = 1 THEN <<>> ELSE <<",">>)
    \o (IF blank THEN <<",", ",", ",">>
        ELSE str_int(10 * t + r) \o <<",">> \o str_int(r) \o <<",">>
             \o str_int(r) \o <<",">> \o str_int(r % 2))

RECURSIVE DataLine(_, _, _, _)
DataLine(t, r, n, blank_last) ==
    IF t > n THEN <<>>
    ELSE DataFields(t, r, blank_last /\ t = n) \o DataLine(t + 1, r, n, blank_last)

CsvFile(n, extra_header, n_rows, short_last) ==
    << Tail(Repeat(<<",", "F", ",", "D", ",", "M", ",", "E">>, n)),
       Tail(Repeat(<<",", "N", ",", "m", "m", ",", "m", "i", "n", ",">>, n)),
       NameLine(n) >>
    \o (IF extra_header THEN <<Tail(Repeat(<<",">>, 4 * n))>> ELSE <<>>)
    \o [r \in 1..n_rows |->
           DataLine(1, r, n, short_last /\ n > 1 /\ r > 1 /\ r = n_rows)]

CsvFiles ==
    { CsvFile(n, extra_header, n_rows, short_last) :
        n \in 1..MaxTests, extra_header \in BOOLEAN,
        n_rows \in 1..MaxDataRows, short_last \in BOOLEAN }

\* exclude sets: test ordinals from -1 to one past the most tests of a file
ReadExcludeArgs ==
    {None} \cup { Some(E) : E \in SUBSET ((0 - 1)..(MaxTests + 1)) }

NoFile == <<>>

\* arguments of _int_set: every text over IntChars up to MaxArgLen, the
\* text of test_int_set, and texts with a repeated token, a letter, a point
IntChars == {"1", "2", ",", "-", " "}

FixtureIntSet == <<"1", ",", "2", ",", "3">>

IntSetArgs ==
    UNION { [1..n -> IntChars] : n \in 0..MaxArgLen }
    \cup { FixtureIntSet,
           <<"3", ",", "1", ",", "2", ",", "1">>,
           <<"1", ",", "a">>,
           <<"1", ".", "5">>,
           <<"+", "1", "2", ",", "0", "7">> }

\* paths: every text over PathChars up to MaxPathLen, and the path of
\* test_path
PathChars == {"a", ".", "/", "-"}

FixturePath ==
    <<".", ".", "\\", "t", "e", "s", "t", ".", "c", "s", "v">>

Paths == UNION { [1..n -> PathChars] : n \in 0..MaxPathLen }
             \cup { FixturePath, <<"-", " ", "a">>, <<"-", "1">> }

\* arrays of rescale: every array over -1..MaxArrayValue up to MaxArrayLen,
\* and longer arrays with a repeated element, a wider range
Arrays ==
    UNION { [1..n -> (0 - 1)..MaxArrayValue] : n \in 1..MaxArrayLen }
    \cup { <<3, 0, 7, 7, 1>>, <<0, 25>>, <<49, 10, 0>>, <<2, 25, 3, 6, 27>> }

\* targets of rescale, [min_, max_]: every pair over -1..MaxTarget, min_
\* above max_ included, the pair of test_rescale, and 0 to 7
Targets ==
    (((0 - 1)..MaxTarget) \X ((0 - 1)..MaxTarget))
    \cup { <<0 - 4, 45>>, <<0, 7>> }

\* command lines: a path alone; a path and -x (or --exclude) with its
\* argument, in both orders; no argument; two paths
CommandLines ==
    { <<p>> : p \in Paths }
    \cup { <<p, opt, a>> : p \in {FixturePath, <<".", "/", "a">>},
                           opt \in {OptX, OptExclude}, a \in IntSetArgs }
    \cup { <<OptX, a, FixturePath>> : a \in IntSetArgs }
    \cup { <<>>, <<FixturePath, OptX>>, <<FixturePath, FixturePath>> }

\* raw tables of 2 tests and 1 row, a test's fields full or blank (a test
\* may have no row at all), and the table of TestArrayFunctions.setUp,
\* whose tests have 5 and 4 rows
TableRaws ==
    { [ncols |-> 2 * _COLS_PER_TEST,
       rows |-> << JoinBlocks(kinds, 1, 1, 2) >>] :
      kinds \in [{1} \X (1..2) -> {"step", "blank"}] }
    \cup {FixtureTable}

\* names given to set_names: the labels of the table's test level,
\* 'Sample i' for each test, and the labels without the first
NameChoices(t) ==
    { t.levels[1], SampleLabels(Len(t.levels[1])),
      SubSeq(t.levels[1], 2, Len(t.levels[1])) }

\* indexes of the tables of interp: the default index of a table of 4 rows
\* (test_interp), index points 3 apart, unevenly spaced, and 98 apart
InterpIndexes == { <<0, 1, 2, 3>>, <<0, 3>>, <<1, 2, 4>>, <<0, 98>> }

\* the column on the index idx that is c0 at its first point and rises by
\* k / g for each unit of the index
LineOn(idx, c0, k, g) ==
    [i \in 1..Len(idx) |-> c0 + (k * (idx[i] - idx[1])) \div g]

\* the slopes k / g that give whole numbers at every point of idx, g being 1
\* or the span of the index
SlopesOn(idx) ==
    { kg \in ((0 - MaxSlope)..MaxSlope) \X {1, idx[Len(idx)] - idx[1]} :
        \A i \in 1..Len(idx) : (kg[1] * (idx[i] - idx[1])) % kg[2] = 0 }

OneColumn(idx, values) ==
    [index_name |-> None, index |-> idx,
     columns |-> << [name |-> "A", values |-> values] >>]

\* the table of test_interp
InterpFixture ==
    [index_name |-> None, index |-> <<0, 1, 2, 3>>,
     columns |-> << [name |-> "A", values |-> <<1, 2, 3, 4>>],
                    [name |-> "B", values |-> <<10, 8, 6, 4>>] >>]

\* a table with a named index whose column is not linear in it
BentTable ==
    [index_name |-> Some("Minutes"), index |-> <<0, 1, 2>>,
     columns |-> << [name |-> "A", values |-> <<0, 1, 4>>] >>]

\* the tables given to interp: numbers are Python integers
InterpTables ==
    UNION { { OneColumn(idx, LineOn(idx, c0, kg[1], kg[2])) :
                c0 \in {0, 1}, kg \in SlopesOn(idx) } :
            idx \in InterpIndexes }
    \cup { InterpFixture, BentTable }

\* the new indexes: np.linspace over every start, stop and number of points
\* (rising, falling and constant), the one of test_interp, and 0 to 98 in 3
NewIndexes ==
    { linspace(start, stop, num) :
        start \in (0 - 1)..MaxStop, stop \in (0 - 1)..MaxStop,
        num \in 1..MaxNewLen }
    \cup { linspace(1, 3, 7), linspace(0, 98, 3) }


NamesFor(raw) ==
    {None, Some(TestLabels(raw.ncols \div _COLS_PER_TEST)),
           Some(SampleLabels(raw.ncols \div _COLS_PER_TEST))}

----------------------------------------------------------------------------
\* The variables of the functions a specification does not run

IdleIngest ==
    /\ csv_data = <<>>
    /\ n_headers = Unused
    /\ tests_to_exclude = None
    /\ excluded = Unused
    /\ df = NoTable
    /\ test_names = None
    /\ df_all = Unused
    /\ work_out = Unused
    /\ csv_file = NoFile
    /\ exclude = None
    /\ pep479 = TRUE
    /\ result = Unused

IdleCli ==
    /\ arg = <<>>
    /\ int_set_out = Unused
    /\ args = <<>>
    /\ namespace = Unused

IdleRescale ==
    /\ old_array = <<>>
    /\ min_ = 0
    /\ max_ = 0
    /\ rescaled = Unused

IdleInterp ==
    /\ interp_df = NoTable
    /\ new_index = <<>>
    /\ df_out = Unused

IdleArray == IdleRescale /\ IdleInterp

IdleTable ==
    /\ store = Unused
    /\ passed = Unused
    /\ calls = <<>>
    /\ last_outcome = Unused

IdleOthers == IdleCli /\ IdleArray /\ IdleTable

----------------------------------------------------------------------------
\* SpecCountHeaders

InitCountHeaders ==
    /\ csv_data \in ProbeTexts
    /\ n_headers = Pending
    /\ tests_to_exclude = None
    /\ excluded = Unused
    /\ df = NoTable
    /\ test_names = None
    /\ df_all = Unused
    /\ work_out = Unused
    /\ csv_file = NoFile
    /\ exclude = None
    /\ pep479 = TRUE
    /\ result = Unused
    /\ IdleOthers

CountHeaders ==
    /\ n_headers = Pending
    /\ n_headers' = _count_headers(csv_data)
    /\ UNCHANGED <<csv_data, tests_to_exclude, excluded,
                   df, test_names, df_all, work_out,
                   csv_file, exclude, pep479, result>>
    /\ UNCHANGED other_vars

NextCountHeaders == CountHeaders

SpecCountHeaders == InitCountHeaders /\ [][NextCountHeaders]_vars

----------------------------------------------------------------------------
\* SpecExclude

InitExclude ==
    /\ tests_to_exclude \in ExcludeArgs
    /\ excluded = Pending
    /\ csv_data = <<>>
    /\ n_headers = Unused
    /\ df = NoTable
    /\ test_names = None
    /\ df_all = Unused
    /\ work_out = Unused
    /\ csv_file = NoFile
    /\ exclude = None
    /\ pep479 = TRUE
    /\ result = Unused
    /\ IdleOthers

Exclude ==
    /\ excluded = Pending
    /\ excluded' = Return(_exclude(tests_to_exclude))
    /\ UNCHANGED <<csv_data, n_headers, tests_to_exclude,
                   df, test_names, df_all, work_out,
                   csv_file, exclude, pep479, result>>
    /\ UNCHANGED other_vars

NextExclude == Exclude

SpecExclude == InitExclude /\ [][NextExclude]_vars

----------------------------------------------------------------------------
\* SpecToDataframe

InitToDataframe ==
    /\ df \in RawTables
    /\ test_names \in NamesFor(df)
    /\ df_all = Pending
    /\ work_out = Pending
    /\ csv_data = <<>>
    /\ n_headers = Unused
    /\ tests_to_exclude = None
    /\ excluded = Unused
    /\ csv_file = NoFile
    /\ exclude = None
    /\ pep479 = TRUE
    /\ result = Unused
    /\ IdleOthers

ToDataframe ==
    /\ df_all = Pending
    /\ df_all' = _to_dataframe(df, test_names)
    /\ UNCHANGED <<csv_data, n_headers, tests_to_exclude, excluded,
                   df, test_names, work_out,
                   csv_file, exclude, pep479, result>>
    /\ UNCHANGED other_vars

\* work on the table _to_dataframe returned
Work ==
    /\ df_all.kind = "return"
    /\ work_out = Pending
    /\ work_out' = Return(work(df_all.value))
    /\ UNCHANGED <<csv_data, n_headers, tests_to_exclude, excluded,
                   df, test_names, df_all,
                   csv_file, exclude, pep479, result>>
    /\ UNCHANGED other_vars

NextToDataframe == ToDataframe \/ Work

SpecToDataframe == InitToDataframe /\ [][NextToDataframe]_vars

----------------------------------------------------------------------------
\* SpecReadCsv

InitReadCsv ==
    /\ csv_file \in CsvFiles
    /\ exclude \in ReadExcludeArgs
    /\ pep479 \in BOOLEAN
    /\ result = Pending
    /\ csv_data = <<>>
    /\ n_headers = Unused
    /\ tests_to_exclude = None
    /\ excluded = Unused
    /\ df = NoTable
    /\ test_names = None
    /\ df_all = Unused
    /\ work_out = Unused
    /\ IdleOthers

ReadCsv ==
    /\ result = Pending
    /\ result' = read_csv(csv_file, exclude, pep479)
    /\ UNCHANGED <<csv_data, n_headers, tests_to_exclude, excluded,
                   df, test_names, df_all, work_out,
                   csv_file, exclude, pep479>>
    /\ UNCHANGED other_vars

NextReadCsv == ReadCsv

SpecReadCsv == InitReadCsv /\ [][NextReadCsv]_vars

----------------------------------------------------------------------------
\* SpecIntSet

InitIntSet ==
    /\ arg \in IntSetArgs
    /\ int_set_out = Pending
    /\ args = <<>>
    /\ namespace = Unused
    /\ IdleIngest
    /\ IdleArray
    /\ IdleTable

IntSet ==
    /\ int_set_out = Pending
    /\ int_set_out' = _int_set(arg)
    /\ UNCHANGED <<arg, args, namespace>>
    /\ UNCHANGED <<ingest_vars, array_vars, table_vars>>

NextIntSet == IntSet

SpecIntSet == InitIntSet /\ [][NextIntSet]_vars

----------------------------------------------------------------------------
\* SpecParseArgs

InitParseArgs ==
    /\ args \in CommandLines
    /\ namespace = Pending
    /\ arg = <<>>
    /\ int_set_out = Unused
    /\ IdleIngest
    /\ IdleArray
    /\ IdleTable

ParseArgs ==
    /\ namespace = Pending
    /\ namespace' = _parse_args(args)
    /\ UNCHANGED <<arg, int_set_out, args>>
    /\ UNCHANGED <<ingest_vars, array_vars, table_vars>>

NextParseArgs == ParseArgs

SpecParseArgs == InitParseArgs /\ [][NextParseArgs]_vars

----------------------------------------------------------------------------
\* SpecRescale

InitRescale ==
    /\ old_array \in Arrays
    /\ \E target \in Targets : min_ = target[1] /\ max_ = target[2]
    /\ rescaled = Pending
    /\ IdleInterp
    /\ IdleIngest
    /\ IdleCli
    /\ IdleTable

\* np.asarray of a sequence of integers
asarray(a) == [i \in 1..Len(a) |-> from_int(a[i])]

Rescale ==
    /\ rescaled = Pending
    /\ rescaled' = Return(rescale(asarray(old_array), min_, max_))
    /\ UNCHANGED <<old_array, min_, max_>>
    /\ UNCHANGED <<ingest_vars, cli_vars, interp_vars, table_vars>>

NextRescale == Rescale

SpecRescale == InitRescale /\ [][NextRescale]_vars

----------------------------------------------------------------------------
\* SpecInterp

InitInterp ==
    /\ interp_df \in InterpTables
    /\ new_index \in NewIndexes
    /\ df_out = Pending
    /\ IdleRescale
    /\ IdleIngest
    /\ IdleCli
    /\ IdleTable

\* np.interp reads the index and the columns as float64
as_floats(table) ==
    [index_name |-> table.index_name,
     index |-> asarray(table.index),
     columns |-> [c \in 1..Len(table.columns) |->
         [name |-> table.columns[c].name,
          values |-> asarray(table.columns[c].values)]]]

Interp ==
    /\ df_out = Pending
    /\ df_out' = Return(interp(as_floats(interp_df), new_index))
    /\ UNCHANGED <<interp_df, new_index>>
    /\ UNCHANGED <<ingest_vars, cli_vars, rescale_vars, table_vars>>

NextInterp == Interp

SpecInterp == InitInterp /\ [][NextInterp]_vars

----------------------------------------------------------------------------
\* SpecTableCalls: _to_dataframe on a raw table, then calls of set_names,
\* work, plot and bar on the table it returned, in any order

Call(op, names) == [op |-> op, names |-> names]

InitTableCalls ==
    /\ \E raw \in TableRaws :
          /\ store = [df |-> raw, df_all |-> None, group |-> None]
          /\ passed = [df |-> raw, df_all |-> None]
    /\ calls = <<>>
    /\ last_outcome = Pending
    /\ IdleIngest
    /\ IdleCli
    /\ IdleArray

TableToDataframe ==
    /\ calls = <<>>
    /\ \E names \in {TestLabels(2), SampleLabels(2)} :
          /\ store' = to_dataframe(store, names)
          /\ last_outcome' = _to_dataframe(store.df, Some(names))
          /\ calls' = << Call("_to_dataframe", names) >>
    /\ passed' = [passed EXCEPT !.df_all = store'.df_all]
    /\ UNCHANGED <<ingest_vars, cli_vars, array_vars>>

\* a call can follow: there is a table, no call has raised, and fewer than
\* MaxCalls calls were made on the table
CanCall ==
    /\ calls # <<>>
    /\ Len(calls) <= MaxCalls
    /\ last_outcome.kind = "return"

\* set_names(df, names).  When set_levels raises, the labels are replaced
\* already or not, as the version of pandas has it.
TableSetNames ==
    /\ CanCall
    /\ \E names \in NameChoices(store.df_all.value), replaced \in BOOLEAN :
          /\ last_outcome' =
                IF set_names(store.df_all.value, names).kind = "return"
                THEN Return(None) ELSE Raise("ValueError")
          /\ store' =
                IF set_names(store.df_all.value, names).kind = "return"
                THEN [store EXCEPT !.df_all =
                         Some(set_names(store.df_all.value, names).value)]
                ELSE IF replaced
                THEN [store EXCEPT !.df_all.value.levels[1] = names]
                ELSE store
          /\ calls' = Append(calls, Call("set_names", names))
    /\ UNCHANGED passed
    /\ UNCHANGED <<ingest_vars, cli_vars, array_vars>>

TableWork ==
    /\ CanCall
    /\ last_outcome' = Return(work(Labelled(store.df_all.value)))
    /\ calls' = Append(calls, Call("work", <<>>))
    /\ UNCHANGED <<store, passed>>
    /\ UNCHANGED <<ingest_vars, cli_vars, array_vars>>

TablePlot ==
    /\ CanCall
    /\ store' = plot(store)
    /\ last_outcome' = Return("axes")
    /\ calls' = Append(calls, Call("plot", <<>>))
    /\ UNCHANGED passed
    /\ UNCHANGED <<ingest_vars, cli_vars, array_vars>>

TableBar ==
    /\ CanCall
    /\ last_outcome' = Return(bar(store.df_all.value))
    /\ calls' = Append(calls, Call("bar", <<>>))
    /\ UNCHANGED <<store, passed>>
    /\ UNCHANGED <<ingest_vars, cli_vars, array_vars>>

NextTableCalls ==
    TableToDataframe \/ TableSetNames \/ TableWork \/ TablePlot \/ TableBar

SpecTableCalls == InitTableCalls /\ [][NextTableCalls]_vars

----------------------------------------------------------------------------
\* Header detection: what the claims speak of

ProbeLines == splitlines(csv_data)

\* the probe of a line: it has a 2nd comma-separated field and that field
\* parses as a floating-point number
PassesProbe(line) ==
    LET fields == split(line, ",")
    IN  Len(fields) >= 2 /\ float_converts(fields[2])

HasNumericLine == \E i \in 1..Len(ProbeLines) : PassesProbe(ProbeLines[i])

\* 0-based index of the first line that passes the probe
FirstNumericLine ==
    (CHOOSE i \in 1..Len(ProbeLines) :
        /\ PassesProbe(ProbeLines[i])
        /\ \A j \in 1..(i - 1) : ~PassesProbe(ProbeLines[j])) - 1

Returned(outcome, v) == outcome.kind = "return" /\ outcome.value = v

Raised(outcome, e) == outcome.kind = "raise" /\ outcome.value = e

\* C1: for every probe text with a line whose 2nd comma-separated field
\* parses as a float, _count_headers returns the index of the first such
\* line (3 and 4 on the two texts of test_count_headers).
C1_ReturnsFirstNumericLine ==
    (n_headers # Pending /\ HasNumericLine)
        => Returned(n_headers, FirstNumericLine)

\* C2: for every probe text in which no line has a 2nd field that parses as
\* a number, lines of a single field included, _count_headers fails with
\* ValueError.
C2_NoNumericLineRaisesValueError ==
    (n_headers # Pending /\ ~HasNumericLine)
        => Raised(n_headers, "ValueError")

\* C10: an empty line inside the header region (before the first line that
\* passes the probe) counts as one more header line: _count_headers still
\* returns the index of the first line that passes the probe.
C10_BlankHeaderLineIsSkipped ==
    (/\ n_headers # Pending
     /\ HasNumericLine
     /\ \E b \in 1..FirstNumericLine : ProbeLines[b] = <<>>)
        => Returned(n_headers, FirstNumericLine)

----------------------------------------------------------------------------
\* Exclusion arithmetic

\* C3: _exclude maps a set E of 1-based test ordinals to exactly the columns
\* 4(k-1)+o for k in E and o in 0..3; None and the empty set give the empty
\* set, and {1,3} gives {0,1,2,3,8,9,10,11}.
C3_ExcludeColumns ==
    excluded # Pending =>
        /\ excluded.kind = "return"
        /\ tests_to_exclude.none => excluded.value = {}
        /\ ~tests_to_exclude.none =>
              excluded.value = { 4 * (k - 1) + o :
                                 k \in tests_to_exclude.value, o \in 0..3 }
        /\ tests_to_exclude = Some({1, 3}) =>
              excluded.value = {0, 1, 2, 3, 8, 9, 10, 11}

C3_Witness ==
    /\ tests_to_exclude = Some({1, 3})
    /\ excluded = Return({0, 1, 2, 3, 8, 9, 10, 11})

----------------------------------------------------------------------------
\* Reshaping: what the claims speak of

NBlocks == df.ncols \div 4

\* the raw rows of block t (1-based) with no missing value among its 4 fields
KeptRows(t) ==
    { r \in 1..Len(df.rows) :
        \A c \in (4 * (t - 1) + 1)..(4 * t) : ~df.rows[r][c].nan }

\* how many rows the blocks before t contribute
RowsBefore(t) ==
    Cardinality({ p \in (1..(t - 1)) \X (1..Len(df.rows)) :
                    p[2] \in KeptRows(p[1]) })

\* where raw row r of block t stands in the result
Position(t, r) == RowsBefore(t) + Cardinality({ q \in KeptRows(t) : q <= r })

\* table holds, block after block, exactly the kept rows of each block in
\* their order, keyed by (names[t], minutes * 60), event as a boolean
ReshapedAs(table, names) ==
    /\ Len(table.rows) = RowsBefore(NBlocks + 1)
    /\ \A t \in 1..NBlocks : \A r \in KeptRows(t) :
          LET row == table.rows[Position(t, r)]
              first == 4 * (t - 1)
          IN  /\ row.index = <<names[t], df.rows[r][first + 3].v * 60>>
              /\ row.values.force = df.rows[r][first + 1].v
              /\ row.values.displacement = df.rows[r][first + 2].v
              /\ row.values.event = (df.rows[r][first + 4].v # 0)

\* C4: _to_dataframe, given a name for every test, returns for every block t
\* exactly the rows of block t that have no missing value among the block's
\* 4 fields, in their order, keyed by (name of t, minutes * 60), event cast
\* to boolean; a missing value in another block removes or shifts none.
C4_BlocksReshapedIndependently ==
    (/\ df_all # Pending
     /\ ~test_names.none
     /\ Len(test_names.value) = NBlocks) =>
        /\ df_all.kind = "return"
        /\ ReshapedAs(df_all.value, test_names.value)

\* a row blank in the first block and kept in the second, before a row the
\* first block keeps
C4_Witness ==
    /\ df_all.kind = "return"
    /\ NBlocks >= 2
    /\ \E r \in KeptRows(2) \ KeptRows(1) : \E q \in KeptRows(1) : q > r
    /\ \E i \in 1..Len(df_all.value.rows) : df_all.value.rows[i].values.event

TableNames == { df_all.value.rows[i].index[1] :
                    i \in 1..Len(df_all.value.rows) }

RowsOf(name) ==
    SelectSeq(df_all.value.rows, LAMBDA row : row.index[1] = name)

\* twice the trapezoidal sum over consecutive rows, in the order given
RECURSIVE TwiceArea(_)
TwiceArea(rows) ==
    IF Len(rows) <= 1 THEN 0
    ELSE LET n == Len(rows)
         IN  TwiceArea(SubSeq(rows, 1, n - 1))
             + (rows[n].values.displacement - rows[n - 1].values.displacement)
               * (rows[n - 1].values.force + rows[n].values.force)

\* C5: work gives every test of the table the trapezoidal sum over the
\* test's consecutive rows in table order, sum (d[i+1]-d[i])*(f[i]+f[i+1])/2,
\* divided by 1000.  On the fixture, whose forces and displacements are held
\* in tenths, that is 100 * 6.75e-4 for 'Test 1' and 100 * 1.05e-4 for
\* 'Test 2'.
C5_WorkIsTrapezoidalSumInRowOrder ==
    work_out.kind = "return" =>
        /\ DOMAIN work_out.value = TableNames
        /\ \A name \in TableNames :
              work_out.value[name].num * 2 * 1000
                  = TwiceArea(RowsOf(name)) * work_out.value[name].den
        /\ (df = FixtureTable /\ test_names = Some(TestLabels(2))) =>
              /\ work_out.value[TestLabel(1)].num * 10000
                    = 675 * work_out.value[TestLabel(1)].den
              /\ work_out.value[TestLabel(2)].num * 10000
                    = 105 * work_out.value[TestLabel(2)].den

\* the fixture, where displacement falls from 0.3 to 0.2 in 'Test 1'
C5_Witness ==
    /\ df = FixtureTable
    /\ work_out.kind = "return"
    /\ work_out.value[TestLabel(1)] = [num |-> 135, den |-> 2000]
    /\ work_out.value[TestLabel(2)] = [num |-> 21, den |-> 2000]

ColumnSet(table) == { table.columns[i] : i \in 1..Len(table.columns) }

C7_NamesSynthesized ==
    (df_all # Pending /\ test_names.none) =>
        /\ df_all.kind = "return"
        /\ ReshapedAs(df_all.value, TestLabels(NBlocks))

----------------------------------------------------------------------------
\* Ingestion: what the claims speak of

\* the number of tests in the file: 4 fields a test on every line
NTests == Len(split(csv_file[1], ",")) \div 4

\* the ordinals of the exclude set that name no test of the file
BeyondLastTest == { k \in exclude.value : k > NTests }

\* C8: with an exclude set holding an ordinal greater than the number of
\* tests in the file, read_csv completes without error and returns the
\* table it returns for the exclude set without that ordinal.
C8_UnknownOrdinalIgnored ==
    (/\ result # Pending
     /\ ~exclude.none
     /\ BeyondLastTest # {}
     /\ read_csv(csv_file, Some(exclude.value \ BeyondLastTest),
                 pep479).kind = "return")
        => result = read_csv(csv_file, Some(exclude.value \ BeyondLastTest),
                             pep479)

\* C9: for a well-formed file of fewer than 10 lines in total, read without
\* excluding a test, the probe takes the lines there are and read_csv
\* returns the table.
C9_ShortFileIngested ==
    (/\ result # Pending
     /\ Len(csv_file) < 10
     /\ (exclude.none \/ exclude.value = {}))
        => result.kind = "return"

\* the names of the header line, one for each test of the file
HeaderNames == every_nth(split(csv_file[3], ","), _COLS_PER_TEST)

\* the table pd.read_csv makes of the data lines of the file
AllData ==
    pd_read_csv(csv_file,
                _count_headers(JoinLines(csv_file, Len(csv_file))).value).value

\* test b of the file (counted from 1) holds the row: same time, force,
\* displacement and minutes
InBlock(row, b) ==
    \E own \in Elements(TestFrame(AllData, (b - 1) * _COLS_PER_TEST).rows) :
        /\ own.index = row.index[2]
        /\ own.values.force = row.values.force
        /\ own.values.displacement = row.values.displacement
        /\ own.values.minutes = row.values.minutes

\* the tests of the file outside the exclude set
Remaining ==
    IF exclude.none THEN 1..NTests ELSE (1..NTests) \ exclude.value

\* the keys of the result, a set
ResultKeys == { row.index[1] : row \in Elements(result.value.rows) }

\* C18: for a file with n tests and every exclude set E within 1..n, each
\* block remaining in read_csv's result is keyed by the header name of its
\* own block of the file, and as many names are used as blocks remain.
C18_KeyedByOwnHeaderName ==
    (/\ result # Pending
     /\ result.kind = "return"
     /\ ~exclude.none
     /\ exclude.value \subseteq 1..NTests)
        => /\ \A row \in Elements(result.value.rows) :
                 \E b \in Remaining :
                     row.index[1] = HeaderNames[b] /\ InBlock(row, b)
           /\ Cardinality(ResultKeys) = Cardinality(Remaining)

\* the result holds the row of a test's frame: same time, force,
\* displacement and minutes
InResult(own) ==
    \E row \in Elements(result.value.rows) :
        /\ own.index = row.index[2]
        /\ own.values.force = row.values.force
        /\ own.values.displacement = row.values.displacement
        /\ own.values.minutes = row.values.minutes

\* C19: for every exclude set of integers, 0 and negative ones included,
\* the blocks in read_csv's result are exactly the blocks of the file whose
\* ordinal (counted from 1) is outside the set, each with all its 4 columns.
C19_OnlyExcludedTestsDropped ==
    (/\ result # Pending
     /\ result.kind = "return"
     /\ ~exclude.none)
        => /\ \A b \in Remaining :
                 \A own \in Elements(
                         TestFrame(AllData, (b - 1) * _COLS_PER_TEST).rows) :
                     InResult(own)
           /\ \A row \in Elements(result.value.rows) :
                 \E b \in Remaining : InBlock(row, b)
           /\ result.value.columns
                  = <<"force", "displacement", "minutes", "event">>

----------------------------------------------------------------------------
\* The command line: what the claims speak of

\* the token is an integer literal: after the surrounding whitespace is
\* dropped, an optional sign and then one decimal digit or more
IsIntegerToken(t) ==
    LET u == strip(t)
    IN  /\ u # <<>>
        /\ Head(u) \in Digits \cup {"+", "-"}
        /\ \A i \in 2..Len(u) : u[i] \in Digits
        /\ \E i \in 1..Len(u) : u[i] \in Digits

RECURSIVE StripZeros(_)
StripZeros(digits) ==
    IF Len(digits) > 1 /\ Head(digits) = "0" THEN StripZeros(Tail(digits))
    ELSE digits

\* the token names the integer v: its digits, leading zeros apart, are the
\* decimal digits of |v|, and it leads with "-" exactly when v < 0 (or v = 0)
NamesInteger(t, v) ==
    LET u == strip(t)
        magnitude == IF v < 0 THEN 0 - v ELSE v
    IN  /\ IsIntegerToken(t)
        /\ StripZeros(IF Head(u) \in Digits THEN u ELSE Tail(u))
              = str_int(magnitude)
        /\ v < 0 => Head(u) = "-"
        /\ v > 0 => Head(u) # "-"

ArgTokens == split(arg, ",")

\* C12: _int_set splits its argument on "," and returns the set of the
\* integers the tokens name, whatever their order and repetition ('1,2,3'
\* gives {1,2,3}); when a token is no integer, the empty token included, it
\* raises ValueError.
C12_IntSetOrValueError ==
    int_set_out # Pending =>
        /\ IF \A i \in 1..Len(ArgTokens) : IsIntegerToken(ArgTokens[i])
           THEN /\ int_set_out.kind = "return"
                /\ \A v \in int_set_out.value :
                      \E i \in 1..Len(ArgTokens) : NamesInteger(ArgTokens[i], v)
                /\ \A i \in 1..Len(ArgTokens) :
                      \E v \in int_set_out.value : NamesInteger(ArgTokens[i], v)
           ELSE Raised(int_set_out, "ValueError")
        /\ arg = FixtureIntSet => int_set_out = Return({1, 2, 3})

\* '3,1,2,1': another order, a token repeated
C12_Witness ==
    /\ arg = <<"3", ",", "1", ",", "2", ",", "1">>
    /\ int_set_out = Return({1, 2, 3})

\* the path is its own normal form on POSIX: not empty, no "." component
\* (unless it is "." itself), no empty component (two leading slashes
\* apart), no slash at the end (unless it is "/" or "//")
IsNormalPath(p) ==
    /\ p # <<>>
    /\ p # <<".">> =>
          \A i \in 1..Len(p) : p[i] = "." =>
              \/ i > 1 /\ p[i - 1] # "/"
              \/ i < Len(p) /\ p[i + 1] # "/"
    /\ \A i \in 1..(Len(p) - 1) : (p[i] = "/" /\ p[i + 1] = "/") =>
          i = 1 /\ (Len(p) = 2 \/ p[3] # "/")
    /\ p[Len(p)] = "/" => p \in { <<"/">>, <<"/", "/">> }

\* C11 as the specification states it: for any path p, parsing [p] gives a
\* namespace whose file stringifies back to exactly p and whose exclude is
\* None; parsing [p, '-x', '1,2,3'] gives exclude {1,2,3}.
C11_AnyPathRoundTrips ==
    namespace # Pending =>
        /\ Len(args) = 1 =>
              /\ namespace.kind = "return"
              /\ path_str(namespace.value.file) = args[1]
              /\ namespace.value.exclude = None
        /\ (Len(args) = 3 /\ args[2] = OptX /\ args[3] = FixtureIntSet) =>
              /\ namespace.kind = "return"
              /\ namespace.value.exclude = Some({1, 2, 3})

\* C11, amended: for any path p that does not start with "-", parsing [p]
\* gives a namespace whose exclude is None and whose file is
\* pathlib.Path(p); it stringifies back to exactly p when, and only when, p
\* is its own normal form.  Parsing [p, '-x', '1,2,3'] gives exclude {1,2,3}
\* and the same file.
C11_NormalPathRoundTrips ==
    (/\ namespace # Pending
     /\ Len(args) \in {1, 3}
     /\ args[1] = <<>> \/ Head(args[1]) # "-") =>
        /\ Len(args) = 1 =>
              /\ namespace.kind = "return"
              /\ namespace.value.exclude = None
              /\ path_str(namespace.value.file) = args[1]
                    <=> IsNormalPath(args[1])
        /\ (Len(args) = 3 /\ args[2] = OptX /\ args[3] = FixtureIntSet) =>
              /\ namespace.kind = "return"
              /\ namespace.value.exclude = Some({1, 2, 3})
              /\ path_str(namespace.value.file) = args[1]
                    <=> IsNormalPath(args[1])

\* test_path's path, with '-x 1,2,3'
C11_Witness ==
    /\ args = <<FixturePath, OptX, FixtureIntSet>>
    /\ namespace.kind = "return"
    /\ path_str(namespace.value.file) = FixturePath
    /\ namespace.value.exclude = Some({1, 2, 3})

----------------------------------------------------------------------------
\* Rescaling: what the claims speak of

IntMax(a) == CHOOSE v \in { a[i] : i \in 1..Len(a) } :
                 \A i \in 1..Len(a) : a[i] <= v

IntMin(a) == CHOOSE v \in { a[i] : i \in 1..Len(a) } :
                 \A i \in 1..Len(a) : v <= a[i]

NonConstant == IntMax(old_array) # IntMin(old_array)

Abs(n) == IF n < 0 THEN 0 - n ELSE n

\* the float x is exactly the quotient num / den, den > 0
EqualsQuotient(x, num, den) ==
    IF num = 0 THEN x = FZero
    ELSE /\ x # FZero
         /\ x.sign = (IF num < 0 THEN 0 - 1 ELSE 1)
         /\ IF x.exp >= 0
            THEN ShiftLeft(MulSmall(x.sig, den), x.exp) = BigFromInt(Abs(num))
            ELSE MulSmall(x.sig, den)
                     = ShiftLeft(BigFromInt(Abs(num)), 0 - x.exp)

\* C13: for every non-constant array and every target with min_ < max_,
\* rescale returns an array of the same shape whose minimum is min_, whose
\* maximum is max_, and whose elements are
\* min_ + scale * (array[i] - orig_min), scale = (max_ - min_) / (orig_max -
\* orig_min) > 0.
C13_LandsOnTargets ==
    (rescaled # Pending /\ NonConstant /\ min_ < max_) =>
        /\ rescaled.kind = "return"
        /\ Len(rescaled.value) = Len(old_array)
        /\ amin(rescaled.value) = from_int(min_)
        /\ amax(rescaled.value) = from_int(max_)
        /\ \A i \in 1..Len(old_array) :
              EqualsQuotient(rescaled.value[i],
                  min_ * (IntMax(old_array) - IntMin(old_array))
                      + (max_ - min_) * (old_array[i] - IntMin(old_array)),
                  IntMax(old_array) - IntMin(old_array))

\* C14 as stated: for every non-constant array and every pair of targets,
\* array[i] <= array[j] implies result[i] <= result[j].
C14_OrderKeptForAnyTargets ==
    (rescaled # Pending /\ NonConstant) =>
        \A i, j \in 1..Len(old_array) :
            old_array[i] <= old_array[j] =>
                fcmp(rescaled.value[i], rescaled.value[j]) <= 0

\* C14, amended: for every non-constant array and every pair of targets
\* with min_ <= max_, array[i] <= array[j] implies result[i] <= result[j].
C14_OrderKeptForRisingTargets ==
    (rescaled # Pending /\ NonConstant /\ min_ <= max_) =>
        \A i, j \in 1..Len(old_array) :
            old_array[i] <= old_array[j] =>
                fcmp(rescaled.value[i], rescaled.value[j]) <= 0

\* an array of 5 with two equal elements, scaled to -4..45
C14_Witness ==
    /\ old_array = <<3, 0, 7, 7, 1>>
    /\ <<min_, max_>> = <<0 - 4, 45>>
    /\ rescaled.kind = "return"
    /\ fcmp(rescaled.value[2], rescaled.value[5]) < 0
    /\ fcmp(rescaled.value[5], rescaled.value[1]) < 0
    /\ rescaled.value[3] = rescaled.value[4]

----------------------------------------------------------------------------
\* Interpolation: what the claims speak of
\*
\* Exact arithmetic on dyadic numbers: [sign, sig, exp] as a float, but sig
\* of any length, so that nothing is rounded.

Dyadic(sign, sig, exp) ==
    IF sig = <<>> THEN FZero ELSE [sign |-> sign, sig |-> sig, exp |-> exp]

xint(n) ==
    IF n < 0 THEN Dyadic(0 - 1, BigFromInt(0 - n), 0)
    ELSE Dyadic(1, BigFromInt(n), 0)

xmul(x, y) == Dyadic(x.sign * y.sign, BigMul(x.sig, y.sig), x.exp + y.exp)

XAddAligned(sa, a, sb, b, e, c) ==
    IF sa = sb THEN Dyadic(sa, BigAdd(a, b), e)
    ELSE IF c = 0 THEN FZero
    ELSE IF c > 0 THEN Dyadic(sa, BigSub(a, b), e)
    ELSE Dyadic(sb, BigSub(b, a), e)

XAddAt(sa, a, sb, b, e) == XAddAligned(sa, a, sb, b, e, BigCmp(a, b))

xadd(x, y) ==
    IF x = FZero THEN y
    ELSE IF y = FZero THEN x
    ELSE XAddAt(x.sign, ShiftLeft(x.sig, x.exp - Min(x.exp, y.exp)),
                y.sign, ShiftLeft(y.sig, y.exp - Min(x.exp, y.exp)),
                Min(x.exp, y.exp))

xsub(x, y) == xadd(x, fneg(y))

xabs(x) == IF x = FZero THEN x ELSE [x EXCEPT !.sign = 1]

\* the column is exactly linear in the index
Linear(idx, col) ==
    \A k \in 1..Len(idx) :
        (col[k] - col[1]) * (idx[Len(idx)] - idx[1])
            = (col[Len(idx)] - col[1]) * (idx[k] - idx[1])

IndexSpan(idx) == idx[Len(idx)] - idx[1]

\* the column's linear function at the float x, times the span of the
\* index (a whole number, so that no division is needed)
LineTimesSpan(idx, col, x) ==
    xadd(xint(col[1] * IndexSpan(idx)),
         xmul(xint(col[Len(idx)] - col[1]), xsub(x, xint(idx[1]))))

\* r minus the column's linear function at x, times the span of the index
ResidualTimesSpan(r, idx, col, x) ==
    xsub(xmul(r, xint(IndexSpan(idx))), LineTimesSpan(idx, col, x))

IsExact(r, idx, col, x) == ResidualTimesSpan(r, idx, col, x) = FZero

InElements(idx, x) ==
    /\ fcmp(from_int(idx[1]), x) <= 0
    /\ fcmp(x, from_int(idx[Len(idx)])) <= 0

\* the larger magnitude of the column at the index points around x
Around(col, j) ==
    IF j = Len(col) THEN Abs(col[j])
    ELSE IF Abs(col[j]) >= Abs(col[j + 1]) THEN Abs(col[j])
    ELSE Abs(col[j + 1])

\* r is the linear function at x to within 8 roundings (2^(3 - Precision))
\* of the larger neighbouring value
IsClose(r, idx, col, x) ==
    fcmp(xabs(ResidualTimesSpan(r, idx, col, x)),
         Dyadic(1, BigFromInt(Around(col, Bracket(x, asarray(idx)))
                                  * IndexSpan(idx)),
                3 - Precision)) <= 0

InterpColumns == 1..Len(interp_df.columns)

\* C15 as stated: for a table whose columns are exactly linear in the
\* index, interp onto any new monotonic index returns one row for each new
\* index point, holding the exact value of each column's linear function
\* there.
C15_ExactOnAnyNewIndex ==
    df_out # Pending =>
        /\ df_out.kind = "return"
        /\ Len(df_out.value.index) = Len(new_index)
        /\ \A c \in InterpColumns :
              Linear(interp_df.index, interp_df.columns[c].values) =>
                  /\ Len(df_out.value.columns[c].values) = Len(new_index)
                  /\ \A i \in 1..Len(new_index) :
                        IsExact(df_out.value.columns[c].values[i],
                                interp_df.index,
                                interp_df.columns[c].values, new_index[i])

\* what interp holds at the new index point x for a linear column
HoldsLineAt(r, idx, col, x) ==
    IF fcmp(x, from_int(idx[Len(idx)])) > 0 THEN r = from_int(col[Len(idx)])
    ELSE IF fcmp(x, from_int(idx[1])) < 0 THEN r = from_int(col[1])
    ELSE /\ IsClose(r, idx, col, x)
         /\ \A k \in 1..Len(idx) : x = from_int(idx[k]) => r = from_int(col[k])

\* C15, amended: for a table whose index rises and whose columns are exactly
\* linear in it, interp onto any new monotonic index returns one row for
\* each new index point; at a point within the range of the table's index a
\* column holds its linear function's value, exactly where the point is one
\* of the table's index points and to within float64 rounding elsewhere; at
\* a point outside the range it holds the column's value at the nearer end.
C15_LinearWithinTheIndexRange ==
    df_out # Pending =>
        /\ df_out.kind = "return"
        /\ Len(df_out.value.index) = Len(new_index)
        /\ \A c \in InterpColumns :
              Linear(interp_df.index, interp_df.columns[c].values) =>
                  /\ Len(df_out.value.columns[c].values) = Len(new_index)
                  /\ \A i \in 1..Len(new_index) :
                        HoldsLineAt(df_out.value.columns[c].values[i],
                                    interp_df.index,
                                    interp_df.columns[c].values, new_index[i])

\* the table of test_interp on the new index of test_interp: column B at
\* 1 + 1/3 is rounded, and is 8 at 1 and 4 at 3
C15_Witness ==
    /\ interp_df = InterpFixture
    /\ new_index = linspace(1, 3, 7)
    /\ df_out.kind = "return"
    /\ ~IsExact(df_out.value.columns[2].values[2], interp_df.index,
                interp_df.columns[2].values, new_index[2])
    /\ df_out.value.columns[2].values[1] = from_int(8)
    /\ df_out.value.columns[2].values[7] = from_int(4)

----------------------------------------------------------------------------
\* Calls on tables: what the claims speak of

\* the table set_names, work, plot and bar are given
Table == store.df_all.value

\* the table's own test labels: the labels of the test level of its index
\* (df.index.levels[0]), in order
OwnLabels == Table.levels[1]

\* the tests that have rows
TestsWithRows == Elements(GroupKeys(Table))

\* C16: set_names with the table's own current test labels, in order,
\* returns and leaves the table as it was (groupings, values, row order and
\* row count), and a second such call would change nothing either.
C16_OwnLabelsChangeNothing ==
    [][(/\ calls # <<>>
        /\ calls' = Append(calls, Call("set_names", OwnLabels)))
           => /\ last_outcome' = Return(None)
              /\ store' = store
              /\ set_names(store'.df_all.value, OwnLabels)
                     = Return(store'.df_all.value)]_vars

\* set_names was called with the labels _to_dataframe gave a table of 2
\* tests with rows; the table is the one _to_dataframe returned
C16_Witness ==
    /\ Len(calls) = 2
    /\ calls[2] = Call("set_names", calls[1].names)
    /\ last_outcome = Return(None)
    /\ TestsWithRows = {1, 2}
    /\ OwnLabels = calls[1].names
    /\ store.df_all = passed.df_all

CalledSetNames == \E i \in 1..Len(calls) : calls[i].op = "set_names"

Called(op) == \E i \in 1..Len(calls) : calls[i].op = op

\* C17: after _to_dataframe the raw table it was given is unchanged, and
\* after any calls of work, plot and bar the table they were given is
\* unchanged: only set_names changes a table.
C17_OnlySetNamesChangesATable ==
    calls # <<>> =>
        /\ store.df = passed.df
        /\ ~CalledSetNames => store.df_all = passed.df_all

\* work, plot and bar were called on a table of 2 tests with rows, which is
\* unchanged; or set_names was called and changed the labels
C17_Witness ==
    /\ Called("work") /\ Called("plot") /\ Called("bar")
    /\ TestsWithRows = {1, 2}
    /\ store.df_all = passed.df_all
    /\ store.df = FixtureTable

\* set_names can change the table: the labels of its tests
C17_SetNamesChanges ==
    /\ Len(calls) = 2
    /\ calls[2].op = "set_names"
    /\ last_outcome = Return(None)
    /\ store.df_all # passed.df_all

====
